---- MODULE Spec2Model ----
(***************************************************************************)
(* Model of the two batch pipelines prepare_eclipse_messages.py           *)
(* (pipeline "A") and prepare_mozilla_messages.py (pipeline "B"):          *)
(* locate -> load -> validate -> window filter -> count reconcile ->      *)
(* derive fields -> split 80/10/10 -> emit train/valid/test -> summary.   *)
(*                                                                         *)
(* Abstractions:                                                           *)
(*  - a text value is a sequence of one-character strings;                 *)
(*  - a calendar date "YYYY-MM-DD" is its day ordinal, an instant is a     *)
(*    number of milliseconds since day 0 00:00:00 UTC;                     *)
(*  - a data-frame cell is a record [kind, s, n, wall, off]: kind "na"     *)
(*    (None/NaN/NaT), "str" (text s), "num" (number n), "time" (text that  *)
(*    to_datetime parses: wall-clock instant wall at UTC offset off);      *)
(*  - the pseudorandom generator behind DataFrame.sample is library code;  *)
(*    it is replaced by a seeded linear congruential generator driving a   *)
(*    Fisher-Yates shuffle (a function of the seed and the row count);     *)
(*  - int(n * 0.80) and int(n * 0.10) are computed in integers: the float  *)
(*    products truncate to (8n) div 10 and n div 10 for all n < 2*10^6.    *)
(***************************************************************************)
EXTENDS Integers, Sequences, FiniteSets, TLC

VARIABLES pipeline, args, env, source, pc, csv_path, tried, enc, df, span,
          n_before, train, valid, test, files, err, log

vars == <<pipeline, args, env, source, pc, csv_path, tried, enc, df, span,
          n_before, train, valid, test, files, err, log>>

(***************************** bounds *************************************)
MaxSplitRows == 10
MaxCountRows == 3
MaxTarget == 3
MaxWindowRows == 2
MaxTextLen == 2

(************************** cells and text ********************************)
NA == [kind |-> "na", s |-> <<>>, n |-> 0, wall |-> 0, off |-> 0]
Str(s) == [kind |-> "str", s |-> s, n |-> 0, wall |-> 0, off |-> 0]
Num(n) == [kind |-> "num", s |-> <<>>, n |-> n, wall |-> 0, off |-> 0]
Time(wall, off) == [kind |-> "time", s |-> <<>>, n |-> 0, wall |-> wall, off |-> off]

Whitespace == {" ", "\t", "\n"}
Digits == <<"0", "1", "2", "3", "4", "5", "6", "7", "8", "9">>

\* str(x) of a non-null cell
RECURSIVE PyStrNat(_)
PyStrNat(n) == IF n < 10 THEN <<Digits[n + 1]>>
               ELSE PyStrNat(n \div 10) \o <<Digits[(n % 10) + 1]>>

PyStr(x) == CASE x.kind = "str" -> x.s
              [] x.kind = "num" -> PyStrNat(x.n)
              [] x.kind = "time" -> <<"t">> \o PyStrNat(x.wall) \o <<"+">> \o PyStrNat(x.off)
              [] OTHER -> <<"n", "a", "n">>

str_or_empty(x) == IF x.kind = "na" THEN <<>> ELSE PyStr(x)

RECURSIVE LStrip(_)
LStrip(s) == IF s # <<>> /\ Head(s) \in Whitespace THEN LStrip(Tail(s)) ELSE s

RECURSIVE RStrip(_)
RStrip(s) == IF s # <<>> /\ s[Len(s)] \in Whitespace
             THEN RStrip(SubSeq(s, 1, Len(s) - 1)) ELSE s

Strip(s) == RStrip(LStrip(s))

\* the first non-null candidate, whether or not it is empty once trimmed
coalesce_first_present(c1, c2) ==
    IF c1.kind # "na" THEN Strip(str_or_empty(c1)) ELSE Strip(str_or_empty(c2))

coalesce_text(c1, c2) ==
    LET s1 == Strip(str_or_empty(c1))
        s2 == Strip(str_or_empty(c2))
    IN  IF s1 # <<>> THEN s1 ELSE IF s2 # <<>> THEN s2 ELSE <<>>

(***************************** data frames ********************************)
\* A frame is [rows, cols, dtype]: rows is a sequence of row records, cols the
\* set of column names, dtype the dtype of the creation_time column.  A row
\* carries every field; a field whose column is not in cols is never read.
\* idx is the row's position in the source file (its index label); ts is the
\* creation_time column once converted by to_datetime.
\* The column "assigned_to_detail.email" is written assigned_to_detail_email.
NaT == [isnat |-> TRUE, ms |-> 0]
Instant(ms) == [isnat |-> FALSE, ms |-> ms]

EmptyFrame == [rows |-> <<>>, cols |-> {}, dtype |-> "object"]

\* Series.get / r.get(col): None when the column is absent
Get(r, col, cols) == IF col \in cols THEN r[col] ELSE NA

MapRows(rows, F(_)) == [i \in 1..Len(rows) |-> F(rows[i])]

\* pd.to_datetime(x, errors="coerce", utc=True) of one cell
to_datetime(x) ==
    CASE x.kind = "time" -> Instant(x.wall - x.off)
      [] x.kind = "num"  -> Instant(x.n \div 1000000)
      [] OTHER           -> NaT

DayMs == 24 * 60 * 60 * 1000
StartOfDay == 0
EndOfDay == ((23 * 60 + 59) * 60 + 59) * 1000

\* pd.Timestamp(date + "T00:00:00Z"), pd.Timestamp(date + "T23:59:59Z")
WindowStart(date) == date * DayMs + StartOfDay
WindowEnd(date) == date * DayMs + EndOfDay

\* an exclusive upper bound
LeStrict(ts, e) == ~ts.isnat /\ ts.ms < e

\* comparisons of a timestamp column with a Timestamp: NaT compares False
Ge(ts, s) == ~ts.isnat /\ ts.ms >= s
Le(ts, e) == ~ts.isnat /\ ts.ms <= e
notna(ts) == ~ts.isnat

ensure_datetime_col(d, col) ==
    IF col \notin d.cols
    THEN [err |-> "KeyError", df |-> d]
    ELSE LET Conv(r) == [r EXCEPT !.ts = to_datetime(r[col])]
             d1 == IF d.dtype # "datetime64"
                   THEN [d EXCEPT !.rows = MapRows(d.rows, Conv), !.dtype = "datetime64"]
                   ELSE d
             NotNa(r) == notna(r.ts)
         IN  [err |-> "none", df |-> [d1 EXCEPT !.rows = SelectSeq(d1.rows, NotNa)]]

filter_window(d, start, end) ==
    LET r1 == ensure_datetime_col(d, "creation_time")
        s == WindowStart(start)
        e == WindowEnd(end)
        Keep(r) == Ge(r.ts, s) /\ Le(r.ts, e)
    IN  IF r1.err # "none" THEN r1
        ELSE [err |-> "none", df |-> [r1.df EXCEPT !.rows = SelectSeq(r1.df.rows, Keep)]]

\* prepare_mozilla_messages.main, lines 103-107: dt is a separate series and
\* the mask selects rows of the unconverted frame
mask_window(d, start, end) ==
    LET Conv(r) == [r EXCEPT !.ts = to_datetime(r.creation_time)]
        s == WindowStart(start)
        e == WindowEnd(end)
        Keep(r) == notna(r.ts) /\ Ge(r.ts, s) /\ Le(r.ts, e)
    IN  [d EXCEPT !.rows = SelectSeq(MapRows(d.rows, Conv), Keep)]

(****************************** loader ************************************)
KnownEncodings == {"utf-8", "latin-1", "cp1252"}

\* pd.read_csv(path, encoding=encoding): the kind of outcome
read_csv(file, encoding) ==
    IF encoding \notin KnownEncodings THEN "LookupError"
    ELSE IF encoding \notin file.decodes THEN "UnicodeDecodeError"
    ELSE IF ~file.parse_ok THEN "ParserError"
    ELSE "ok"

read_csv_with_fallback(file, encoding) ==
    LET first == read_csv(file, encoding)
        retry == read_csv(file, "latin-1")
    IN  IF first = "ok"
        THEN [err |-> "none", enc |-> "utf-8",
              tried |-> <<encoding>>, warned |-> FALSE]
        ELSE IF first = "UnicodeDecodeError"
        THEN [err |-> IF retry = "ok" THEN "none" ELSE retry, enc |-> "latin-1",
              tried |-> <<encoding, "latin-1">>, warned |-> TRUE]
        ELSE [err |-> first, enc |-> "", tried |-> <<encoding>>, warned |-> FALSE]

(*************************** field deriver ********************************)
fillna(x, y) == IF x.kind = "na" THEN y ELSE x

\* .astype(str)
astype_str(x) == Str(PyStr(x))

\* the two identity columns consulted in the opposite order
AssigneeOfSwapped(r, cols) ==
    LET a == IF "assigned_to" \in cols
             THEN IF "assigned_to_detail_email" \in cols
                  THEN fillna(r.assigned_to, r.assigned_to_detail_email)
                  ELSE r.assigned_to
             ELSE IF "assigned_to_detail_email" \in cols
                  THEN r.assigned_to_detail_email
                  ELSE Str(<<>>)
    IN  Str(PyStr(IF a.kind = "na" THEN Str(<<>>) ELSE a))

AssigneeOf(r, cols) ==
    LET a == IF "assigned_to_detail_email" \in cols
             THEN IF "assigned_to" \in cols
                  THEN fillna(r.assigned_to_detail_email, r.assigned_to)
                  ELSE r.assigned_to_detail_email
             ELSE IF "assigned_to" \in cols
                  THEN r.assigned_to
                  ELSE Str(<<>>)
    IN  astype_str(fillna(a, Str(<<>>)))

add_assignee_column(d) ==
    LET F(r) == [r EXCEPT !.assignee = AssigneeOf(r, d.cols)]
    IN  [d EXCEPT !.rows = MapRows(d.rows, F), !.cols = d.cols \cup {"assignee"}]

TitleOf(r, cols) == coalesce_text(Get(r, "summary_update", cols), Get(r, "summary", cols))
BodyOf(r, cols) == coalesce_text(Get(r, "description_update", cols), Get(r, "description", cols))

add_title_body(d) ==
    LET F(r) == [r EXCEPT !.title = Str(TitleOf(r, d.cols)), !.body = Str(BodyOf(r, d.cols))]
    IN  [d EXCEPT !.rows = MapRows(d.rows, F), !.cols = d.cols \cup {"title", "body"}]


(************************** count reconciler ******************************)
\* DataFrame.head(n): the first n rows; for negative n all but the last -n
PyHead(rows, n) ==
    IF n >= 0
    THEN SubSeq(rows, 1, IF n < Len(rows) THEN n ELSE Len(rows))
    ELSE SubSeq(rows, 1, IF Len(rows) + n > 0 THEN Len(rows) + n ELSE 0)

Perms(n) == {p \in [1..n -> 1..n] : \A i, j \in 1..n : i # j => p[i] # p[j]}

IsAscending(rows) == \A i \in 1..(Len(rows) - 1) : rows[i].ts.ms <= rows[i + 1].ts.ms

\* the frame left in source order (the sort omitted)
sort_values_omitted(rows) == {rows}

\* sort_values("creation_time"): the default sort kind is not stable, so every
\* ascending arrangement of the rows is a possible result
sort_values(rows) ==
    {s \in {[i \in 1..Len(rows) |-> rows[p[i]]] : p \in Perms(Len(rows))} : IsAscending(s)}

\* Python truthiness of an int argument
Truthy(n) == n # 0

\* prepare_eclipse_messages.main, lines 145-155: the set of possible outcomes
TrimApplies(target, n) == Truthy(target) /\ n >= target
BelowTarget(target, n) == Truthy(target) /\ n < target

\* prepare_mozilla_messages.main, lines 110-114
\* the strictness flag read the wrong way round
StrictMismatchInverted(expect, no_strict, n) == Truthy(expect) /\ no_strict /\ n # expect

StrictMismatch(expect, no_strict, n) == Truthy(expect) /\ ~no_strict /\ n # expect
WarnMismatch(expect, n) == Truthy(expect) /\ n # expect

(****************************** splitter **********************************)
\* the generator step and the shuffle standing for RandomState(seed)
NextRand(x) == (x * 75 + 74) % 65537

RECURSIVE FisherYates(_, _, _)
FisherYates(p, i, x) ==
    IF i <= 1 THEN p
    ELSE LET j == 1 + (x % i)
             q == [p EXCEPT ![i] = p[j], ![j] = p[i]]
         IN  FisherYates(q, i - 1, NextRand(x))

\* the positions drawn by sample(frac=1.0, random_state=seed) for n rows
Permutation(seed, n) == FisherYates([i \in 1..n |-> i], n, NextRand(seed % 65537))

\* df.sample(frac=1.0, random_state=seed).reset_index(drop=True)
sample(rows, seed) ==
    LET p == Permutation(seed, Len(rows))
    IN  [i \in 1..Len(rows) |-> rows[p[i]]]

\* a rounding (not truncating) train size
NTrainRounded(n) == (n * 8 + 5) \div 10

\* int(n * 0.80), int(n * 0.10)
NTrain(n) == (n * 8) \div 10
NVal(n) == n \div 10

\* df.iloc[a:b]
iloc(rows, a, b) == SubSeq(rows, a + 1, b)

TrainSlice(rows) == iloc(rows, 0, NTrain(Len(rows)))
ValidSlice(rows) == iloc(rows, NTrain(Len(rows)), NTrain(Len(rows)) + NVal(Len(rows)))
\* a test slice that starts one position late
TestSliceLate(rows) == iloc(rows, NTrain(Len(rows)) + NVal(Len(rows)) + 1, Len(rows))

TestSlice(rows) == iloc(rows, NTrain(Len(rows)) + NVal(Len(rows)), Len(rows))

(****************************** emitters **********************************)
\* USER_PROMPT_TEMPLATE.format(title=..., body=...)
UserContent(title, body) == [template |-> "USER_PROMPT_TEMPLATE", title |-> title, body |-> body]

Messages(title, body, assignee) ==
    [system |-> "SYSTEM_PROMPT", user |-> UserContent(title, body), assistant |-> assignee]

\* prepare_eclipse_messages.to_jsonl: title and body are derived while writing
JsonlLineA(r, cols) ==
    Messages(TitleOf(r, cols), BodyOf(r, cols), str_or_empty(Get(r, "assignee", cols)))

\* prepare_mozilla_messages.to_jsonl: the derived columns are read back
JsonlLineB(r) ==
    Messages(str_or_empty(r.title), str_or_empty(r.body), str_or_empty(r.assignee))

\* prepare_eclipse_messages.to_title_body_assignee_csv
CsvRowA(r, cols) ==
    [title |-> TitleOf(r, cols), body |-> BodyOf(r, cols),
     assignee |-> IF "assignee" \in cols THEN str_or_empty(r.assignee) ELSE <<>>]

\* prepare_mozilla_messages.to_csv_slim
CsvRowB(r) == [title |-> PyStr(r.title), body |-> PyStr(r.body), assignee |-> PyStr(r.assignee)]

\* every emitted record carries the source position of its row
Emitted(r, rec) == [idx |-> r.idx, rec |-> rec]

to_jsonl(rows, cols, p) ==
    [i \in 1..Len(rows) |->
        Emitted(rows[i], IF p = "A" THEN JsonlLineA(rows[i], cols) ELSE JsonlLineB(rows[i]))]

to_csv(rows, cols, p) ==
    [i \in 1..Len(rows) |->
        Emitted(rows[i], IF p = "A" THEN CsvRowA(rows[i], cols) ELSE CsvRowB(rows[i]))]

NoFile == [exists |-> FALSE, lines |-> <<>>]
Written(lines) == [exists |-> TRUE, lines |-> lines]
NoError == [type |-> "none", stage |-> "none", actual |-> 0, expected |-> 0]
Raise(type, stage, actual, expected) ==
    [type |-> type, stage |-> stage, actual |-> actual, expected |-> expected]

(************************* top-level orchestration ************************)
\* main(): one action per stage.  pipeline "A" is prepare_eclipse_messages,
\* pipeline "B" prepare_mozilla_messages.  args.count is --target_exact (A) or
\* --expect_count (B); args.override is --allow_below_target (A) or
\* --no_strict_count (B).  span records df_span as the window filter leaves
\* it (the code overwrites it when trimming); n_before is its length.

Locate ==
    /\ pc = "locate"
    /\ IF env.primary_exists
       THEN /\ pc' = "load"
            /\ UNCHANGED <<csv_path, err, log>>
       ELSE IF pipeline = "A" /\ env.fallback_exists
       THEN /\ pc' = "load"
            /\ csv_path' = "eclipse_my.csv"
            /\ log' = log \cup {"using fallback source"}
            /\ UNCHANGED err
       ELSE /\ pc' = "aborted"
            /\ err' = Raise("FileNotFoundError", "locate", 0, 0)
            /\ UNCHANGED <<csv_path, log>>
    /\ UNCHANGED <<pipeline, args, env, source, tried, enc, df, span, n_before,
                   train, valid, test, files>>

\* a loader stage that opens the three outputs for writing up front
LoadOpensOutputs ==
    /\ pc = "load"
    /\ LET r == read_csv_with_fallback(env.file, args.encoding)
       IN  /\ tried' = r.tried
           /\ log' = IF r.warned THEN log \cup {"decode retry latin-1"} ELSE log
           /\ files' = [train_all |-> Written(<<>>), valid_all |-> Written(<<>>),
                        test_all |-> Written(<<>>)]
           /\ IF r.err = "none"
              THEN /\ pc' = "validate"
                   /\ df' = source
                   /\ enc' = r.enc
                   /\ UNCHANGED err
              ELSE /\ pc' = "aborted"
                   /\ err' = Raise(r.err, "load", 0, 0)
                   /\ UNCHANGED <<df, enc>>
    /\ UNCHANGED <<pipeline, args, env, source, csv_path, span, n_before,
                   train, valid, test>>

Load ==
    /\ pc = "load"
    /\ LET r == read_csv_with_fallback(env.file, args.encoding)
       IN  /\ tried' = r.tried
           /\ log' = IF r.warned THEN log \cup {"decode retry latin-1"} ELSE log
           /\ IF r.err = "none"
              THEN /\ pc' = "validate"
                   /\ df' = source
                   /\ enc' = r.enc
                   /\ UNCHANGED err
              ELSE /\ pc' = "aborted"
                   /\ err' = Raise(r.err, "load", 0, 0)
                   /\ UNCHANGED <<df, enc>>
    /\ UNCHANGED <<pipeline, args, env, source, csv_path, span, n_before,
                   train, valid, test, files>>

Validate ==
    /\ pc = "validate"
    /\ IF pipeline = "A"
       THEN LET r == ensure_datetime_col(df, "creation_time")
            IN  IF r.err = "none"
                THEN pc' = "filter" /\ df' = r.df /\ UNCHANGED err
                ELSE /\ pc' = "aborted"
                     /\ err' = Raise(r.err, "validate", 0, 0)
                     /\ UNCHANGED df
       ELSE IF "creation_time" \in df.cols
            THEN pc' = "filter" /\ UNCHANGED <<df, err>>
            ELSE /\ pc' = "aborted"
                 /\ err' = Raise("KeyError", "validate", 0, 0)
                 /\ UNCHANGED df
    /\ UNCHANGED <<pipeline, args, env, source, csv_path, tried, enc, span, n_before,
                   train, valid, test, files, log>>

Filter ==
    /\ pc = "filter"
    /\ IF pipeline = "A"
       THEN LET r == filter_window(df, args.start, args.end)
            IN  IF r.err = "none"
                THEN /\ pc' = "reconcile"
                     /\ df' = r.df
                     /\ span' = r.df.rows
                     /\ n_before' = Len(r.df.rows)
                     /\ UNCHANGED err
                ELSE /\ pc' = "aborted"
                     /\ err' = Raise(r.err, "filter", 0, 0)
                     /\ UNCHANGED <<df, span, n_before>>
       ELSE LET d == mask_window(df, args.start, args.end)
            IN  /\ pc' = "reconcile"
                /\ df' = d
                /\ span' = d.rows
                /\ n_before' = Len(d.rows)
                /\ UNCHANGED err
    /\ UNCHANGED <<pipeline, args, env, source, csv_path, tried, enc,
                   train, valid, test, files, log>>

ReconcileA ==
    IF TrimApplies(args.count, n_before)
    THEN /\ \E s \in sort_values(df.rows) :
                df' = [df EXCEPT !.rows = PyHead(s, args.count)]
         /\ pc' = "derive"
         /\ log' = log \cup {"trimmed to exact"}
         /\ UNCHANGED err
    ELSE IF BelowTarget(args.count, n_before)
    THEN IF args.override
         THEN /\ pc' = "derive"
              /\ log' = log \cup {"below target, continuing"}
              /\ UNCHANGED <<df, err>>
         ELSE /\ pc' = "aborted"
              /\ err' = Raise("ValueError", "reconcile", n_before, args.count)
              /\ UNCHANGED <<df, log>>
    ELSE pc' = "derive" /\ UNCHANGED <<df, err, log>>

ReconcileB ==
    IF StrictMismatch(args.count, args.override, Len(df.rows))
    THEN /\ pc' = "aborted"
         /\ err' = Raise("ValueError", "reconcile", Len(df.rows), args.count)
         /\ UNCHANGED <<df, log>>
    ELSE IF WarnMismatch(args.count, Len(df.rows))
    THEN /\ pc' = "derive"
         /\ log' = log \cup {"count mismatch, continuing"}
         /\ UNCHANGED <<df, err>>
    ELSE pc' = "derive" /\ UNCHANGED <<df, err, log>>

Reconcile ==
    /\ pc = "reconcile"
    /\ IF pipeline = "A" THEN ReconcileA ELSE ReconcileB
    /\ UNCHANGED <<pipeline, args, env, source, csv_path, tried, enc, span, n_before,
                   train, valid, test, files>>

Derive ==
    /\ pc = "derive"
    /\ df' = IF pipeline = "A" THEN add_assignee_column(df)
             ELSE add_title_body(add_assignee_column(df))
    /\ pc' = "split"
    /\ UNCHANGED <<pipeline, args, env, source, csv_path, tried, enc, span, n_before,
                   train, valid, test, files, err, log>>

Split ==
    /\ pc = "split"
    /\ LET shuf == sample(df.rows, args.seed)
       IN  /\ df' = [df EXCEPT !.rows = shuf]
           /\ train' = TrainSlice(shuf)
           /\ valid' = ValidSlice(shuf)
           /\ test' = TestSlice(shuf)
    /\ pc' = "emit_train"
    /\ UNCHANGED <<pipeline, args, env, source, csv_path, tried, enc, span, n_before,
                   files, err, log>>

\* open(path, "w") creates the file; a write failure leaves a truncated file
Emit(stage, next, name, lines) ==
    /\ pc = stage
    /\ IF env.io_fail = stage
       THEN /\ \E k \in 0..Len(lines) :
                   files' = [files EXCEPT ![name] = Written(SubSeq(lines, 1, k))]
            /\ pc' = "aborted"
            /\ err' = Raise("OSError", stage, 0, 0)
       ELSE /\ files' = [files EXCEPT ![name] = Written(lines)]
            /\ pc' = next
            /\ UNCHANGED err
    /\ UNCHANGED <<pipeline, args, env, source, csv_path, tried, enc, df, span, n_before,
                   train, valid, test, log>>

EmitTrain == Emit("emit_train", "emit_valid", "train_all", to_jsonl(train, df.cols, pipeline))
EmitValid == Emit("emit_valid", "emit_test", "valid_all", to_jsonl(valid, df.cols, pipeline))
EmitTest == Emit("emit_test", "summary", "test_all", to_csv(test, df.cols, pipeline))

Summary ==
    /\ pc = "summary"
    /\ pc' = "done"
    /\ log' = log \cup {"SUMMARY"}
    /\ UNCHANGED <<pipeline, args, env, source, csv_path, tried, enc, df, span, n_before,
                   train, valid, test, files, err>>

Next ==
    \/ Locate \/ Load \/ Validate \/ Filter \/ Reconcile \/ Derive \/ Split
    \/ EmitTrain \/ EmitValid \/ EmitTest \/ Summary

(***************************** initial states ****************************)
\* The inputs of a run: the command line (args), the file system (env) and the
\* frame read_csv yields for the source file (source).  Each family below
\* varies the inputs of one stage over a bounded set and fixes the others.
AllCols == {"creation_time", "assigned_to_detail_email", "assigned_to",
            "summary_update", "summary", "description_update", "description"}

Row(i, ct, de, at, su, s, du, d) ==
    [idx |-> i, creation_time |-> ct, ts |-> NaT,
     assigned_to_detail_email |-> de, assigned_to |-> at,
     summary_update |-> su, summary |-> s,
     description_update |-> du, description |-> d,
     assignee |-> NA, title |-> NA, body |-> NA]

Frame(rows, cols) == [rows |-> rows, cols |-> cols, dtype |-> "object"]

Seeds == {3407, 1, 42}
DefaultSeed == 3407

OkFile == [decodes |-> KnownEncodings, parse_ok |-> TRUE]
OkEnv == [primary_exists |-> TRUE, fallback_exists |-> FALSE, file |-> OkFile,
          io_fail |-> "none"]

Args(seed, encoding, start, end, count, override) ==
    [seed |-> seed, encoding |-> encoding, start |-> start, end |-> end,
     count |-> count, override |-> override]

Start(p, a, e, src) ==
    /\ pipeline = p
    /\ args = a
    /\ env = e
    /\ source = src
    /\ pc = "locate"
    /\ csv_path = "primary"
    /\ tried = <<>>
    /\ enc = ""
    /\ df = EmptyFrame
    /\ span = <<>>
    /\ n_before = 0
    /\ train = <<>>
    /\ valid = <<>>
    /\ test = <<>>
    /\ files = [train_all |-> NoFile, valid_all |-> NoFile, test_all |-> NoFile]
    /\ err = NoError
    /\ log = {}

SeqsUpTo(S, n) == UNION {[1..k -> S] : k \in 0..n}

PlainRow(i, ct) ==
    Row(i, ct, NA, IF i % 2 = 0 THEN Str(<<"a">>) ELSE NA,
        NA, Str(<<"T">>), NA, Str(<<"B">>))

\* the splitter's inputs: row count and seed
SplitSource(n) ==
    Frame([i \in 1..n |-> PlainRow(i - 1, Time(DayMs + ((i * 7) % 5) * 1000, 0))], AllCols)

InitSplit ==
    \E p \in {"A", "B"}, n \in 0..MaxSplitRows, seed \in Seeds,
       count \in {0, MaxSplitRows + 2} :
        Start(p, Args(seed, "utf-8", 1, 1, count, TRUE), OkEnv, SplitSource(n))

\* the count reconciler's inputs: in-window rows, target/expected count, override
CountTimes == {Time(DayMs + k * 1000, 0) : k \in 1..3}

InitCount ==
    \E p \in {"A", "B"}, cts \in SeqsUpTo(CountTimes, MaxCountRows),
       count \in (0 - 2)..MaxTarget, override \in BOOLEAN :
        Start(p, Args(DefaultSeed, "utf-8", 1, 1, count, override), OkEnv,
              Frame([i \in 1..Len(cts) |-> PlainRow(i - 1, cts[i])], AllCols))

\* the window filter's inputs: creation_time cells and the window
WindowCells ==
    { NA,
      Str(<<"x">>),
      Time(DayMs, 0),
      Time(DayMs - 1, 0),
      Time(DayMs + EndOfDay, 0),
      Time(DayMs + EndOfDay + 1, 0),
      Time(DayMs, 60 * 60 * 1000),
      Time(DayMs - 30 * 60 * 1000, 0 - 60 * 60 * 1000),
      Time(2 * DayMs + 12 * 60 * 60 * 1000, 0) }

InitWindow ==
    \E p \in {"A", "B"}, cts \in SeqsUpTo(WindowCells, MaxWindowRows),
       start \in 1..2, end \in 1..2 :
        Start(p, Args(DefaultSeed, "utf-8", start, end, 0, FALSE), OkEnv,
              Frame([i \in 1..Len(cts) |-> PlainRow(i - 1, cts[i])], AllCols))

\* the field deriver's inputs: one row's cells and the columns present
Texts == SeqsUpTo({" ", "x"}, MaxTextLen)
TextCells == {NA, Num(5), Str(<<"\t", "y", "\n">>)} \cup {Str(s) : s \in Texts}
AssigneeCells == {NA, Num(7), Str(<<>>), Str(<<"a", "@", "x">>)}
DetailCells == {NA, Num(8), Str(<<>>), Str(<<"d", "@", "x">>)}
InDay == Time(DayMs, 0)

DescriptionCases ==
    { [du |-> Str(<<" ", "D">>), d |-> Str(<<"d">>), cols |-> {"description_update", "description"}],
      [du |-> NA, d |-> Str(<<"d", " ">>), cols |-> {"description_update", "description"}],
      [du |-> Str(<<"D">>), d |-> Str(<<"d">>), cols |-> {"description"}],
      [du |-> NA, d |-> NA, cols |-> {}] }

InitDeriveText ==
    \E p \in {"A", "B"}, su \in TextCells, s \in TextCells,
       tc \in SUBSET {"summary_update", "summary"}, dc \in DescriptionCases :
        Start(p, Args(DefaultSeed, "utf-8", 1, 1, 0, FALSE), OkEnv,
              Frame(<<Row(0, InDay, NA, Str(<<"a">>), su, s, dc.du, dc.d)>>,
                    {"creation_time", "assigned_to"} \cup tc \cup dc.cols))

InitDeriveAssignee ==
    \E p \in {"A", "B"}, de \in DetailCells, at \in AssigneeCells,
       ac \in SUBSET {"assigned_to_detail_email", "assigned_to"} :
        Start(p, Args(DefaultSeed, "utf-8", 1, 1, 0, FALSE), OkEnv,
              Frame(<<Row(0, InDay, de, at, NA, Str(<<"T">>), NA, NA)>>,
                    {"creation_time", "summary"} \cup ac))

\* the loader's inputs: the files present, what decodes the source, the
\* preferred encoding; and the point where writing an output fails
LoadSource(has_ct) ==
    Frame(<<PlainRow(0, InDay), PlainRow(1, InDay)>>,
          IF has_ct THEN AllCols ELSE AllCols \ {"creation_time"})

InitLoad ==
    \E p \in {"A", "B"}, pe \in BOOLEAN, fe \in BOOLEAN,
       dec \in {d \in SUBSET KnownEncodings : "latin-1" \in d}, ok \in BOOLEAN,
       encoding \in KnownEncodings \cup {"bogus"}, has_ct \in BOOLEAN,
       io \in {"none", "emit_train", "emit_valid", "emit_test"} :
        Start(p, Args(DefaultSeed, encoding, 1, 1, 0, FALSE),
              [primary_exists |-> pe, fallback_exists |-> fe,
               file |-> [decodes |-> dec, parse_ok |-> ok], io_fail |-> io],
              LoadSource(has_ct))

Init ==
    InitSplit \/ InitCount \/ InitWindow \/ InitDeriveText \/ InitDeriveAssignee \/ InitLoad

Spec == Init /\ [][Next]_vars

(***************************** properties *********************************)
IdxSet(rows) == {rows[i].idx : i \in 1..Len(rows)}
IdxSeq(rows) == [i \in 1..Len(rows) |-> rows[i].idx]
SplitDone == pc \in {"emit_train", "emit_valid", "emit_test", "summary", "done"}

\* C1: the split step turns the rows that left the count reconciler (and the
\* field deriver) into three slices of the shuffled table that occupy
\* disjoint, contiguous position ranges covering every position, and the
\* shuffled table holds every one of those rows exactly once: nothing is
\* dropped, fabricated or duplicated, and the three counts add up to the count
\* after reconciliation.
C1_SplitIsPartition ==
    [][pc = "split" =>
         LET n == Len(df.rows)
             out == train' \o valid' \o test'
         IN  /\ Len(train') + Len(valid') + Len(test') = n
             /\ out = df'.rows
             /\ Len(df'.rows) = n
             /\ \A i \in 1..n : \E j \in 1..n : df'.rows[j] = df.rows[i]
             /\ \A i, j \in 1..n : i # j => out[i].idx # out[j].idx
             /\ IdxSet(train') \cap IdxSet(valid') = {}
             /\ IdxSet(train') \cap IdxSet(test') = {}
             /\ IdxSet(valid') \cap IdxSet(test') = {}
             /\ IdxSet(out) = IdxSet(df.rows)]_vars

C1_Witness ==
    /\ pc = "emit_train"
    /\ train # <<>> /\ valid # <<>> /\ test # <<>>
    /\ IdxSeq(df.rows) # [i \in 1..Len(df.rows) |-> i - 1]

\* C2: after the split, with n the number of rows of the shuffled table, train
\* is its first floor(0.80 n) rows, valid the next floor(0.10 n) rows and test
\* the remaining n - train - valid rows, each in the table's order.
Floor(num, den) == CHOOSE k \in 0..num : den * k <= num /\ num < den * (k + 1)

C2_SplitSizes ==
    SplitDone =>
        LET n == Len(df.rows)
            a == Floor(80 * n, 100)
            b == Floor(10 * n, 100)
        IN  /\ Len(train) = a
            /\ Len(valid) = b
            /\ Len(test) = n - a - b
            /\ \A i \in 1..a : train[i] = df.rows[i]
            /\ \A i \in 1..b : valid[i] = df.rows[a + i]
            /\ \A i \in 1..(n - a - b) : test[i] = df.rows[a + b + i]

C2_Witness ==
    /\ pc = "done"
    /\ Len(df.rows) = 10
    /\ Len(train) = 8 /\ Len(valid) = 1 /\ Len(test) = 1

\* C3 as stated: in pipeline A, for every accepted integer target and every
\* in-window count >= target, the reconciler keeps exactly target rows, and
\* every kept creation time is <= every excluded creation time.
Excluded == SelectSeq(span, LAMBDA r : r.idx \notin IdxSet(df.rows))
KeepsOldest(target) ==
    /\ Len(df.rows) = target
    /\ IdxSet(df.rows) \subseteq IdxSet(span)
    /\ \A i \in 1..Len(df.rows) : \A j \in 1..Len(Excluded) :
           df.rows[i].ts.ms <= Excluded[j].ts.ms

C3_Original ==
    (pipeline = "A" /\ pc = "derive" /\ n_before >= args.count) => KeepsOldest(args.count)

\* C3: in pipeline A, for every target > 0 and every in-window count >= target,
\* the reconciler keeps exactly target rows, and every kept creation time is <=
\* every excluded creation time.
C3_TrimKeepsOldest ==
    (pipeline = "A" /\ pc = "derive" /\ args.count > 0 /\ n_before >= args.count)
        => KeepsOldest(args.count)

C3_Witness ==
    /\ pipeline = "A" /\ pc = "derive"
    /\ args.count = 2 /\ n_before = 3
    /\ IdxSeq(df.rows) = <<2, 1>>
    /\ \E j \in 1..Len(Excluded) : Excluded[j].ts.ms > df.rows[2].ts.ms

\* C4 as stated: a count-policy violation (A: in-window count < target; B:
\* in-window count # expected) aborts the run with the actual and the
\* target/expected count in the failure unless the override flag is set, and
\* with the flag set the run goes on with the untrimmed in-window rows and a
\* printed notice.
AfterReconcile == pc = "derive" \/ (pc = "aborted" /\ err.stage = "reconcile")
CountViolation ==
    IF pipeline = "A" THEN n_before < args.count ELSE n_before # args.count
Notice == IF pipeline = "A" THEN "below target, continuing" ELSE "count mismatch, continuing"
ViolationHandled ==
    IF args.override
    THEN pc = "derive" /\ df.rows = span /\ Notice \in log /\ err = NoError
    ELSE /\ pc = "aborted"
         /\ err.type = "ValueError"
         /\ err.actual = n_before
         /\ err.expected = args.count
         /\ df.rows = span

C4_Original == (AfterReconcile /\ CountViolation) => ViolationHandled

\* C4: as above, for every target in pipeline A and every expected count other
\* than 0 in pipeline B.
C4_ViolationFatalUnlessOverridden ==
    (AfterReconcile /\ CountViolation /\ (pipeline = "B" => args.count # 0))
        => ViolationHandled

C4_Witness ==
    /\ pc = "aborted" /\ err.stage = "reconcile"
    /\ pipeline = "B" /\ ~args.override
    /\ n_before = 2 /\ args.count = 3

\* C5: a run that aborted while locating or loading the source, validating the
\* creation_time column, window-filtering or reconciling the count has written
\* (opened) none of the three output files; a file exists only once all of
\* these stages have succeeded.
EarlyStages == {"locate", "load", "validate", "filter", "reconcile"}
NoOutput == \A f \in DOMAIN files : ~files[f].exists

C5_NoOutputBeforeAbort ==
    /\ (pc = "aborted" /\ err.stage \in EarlyStages) => NoOutput
    /\ (pc \in EarlyStages \cup {"derive", "split", "emit_train"}) => NoOutput

C5_Witness ==
    /\ pc = "aborted" /\ err.stage = "reconcile" /\ NoOutput

\* C6 as stated: the loader tries the preferred encoding first; it returns the
\* preferred encoding when the first attempt succeeds, and latin-1 when the
\* first attempt failed to decode and the single retry succeeded; any other
\* failure propagates without a retry.
Loaded == tried # <<>> /\ ~(pc = "aborted" /\ err.stage = "load")
LoadFailed == pc = "aborted" /\ err.stage = "load"

C6_Original ==
    tried # <<>> =>
        /\ tried[1] = args.encoding
        /\ Len(tried) <= 2
        /\ (Loaded /\ Len(tried) = 1) => enc = args.encoding
        /\ (Loaded /\ Len(tried) = 2) =>
               (enc = "latin-1" /\ tried[2] = "latin-1"
                /\ args.encoding \notin env.file.decodes)
        /\ (LoadFailed /\ err.type \in {"LookupError", "ParserError"}
            /\ (args.encoding \notin KnownEncodings \/ args.encoding \in env.file.decodes))
               => Len(tried) = 1

\* C7: right after the window filter, the kept rows are exactly the source rows
\* whose creation time parses to an instant t with start 00:00:00 UTC <= t <=
\* end 23:59:59 UTC, in source order; unparseable creation times are left out
\* and raise nothing.
SourceRow(i) == source.rows[i + 1]
Parses(c) == c.kind = "time"
UtcInstant(c) == c.wall - c.off
InClaimedWindow(c) ==
    /\ Parses(c)
    /\ args.start * 86400000 <= UtcInstant(c)
    /\ UtcInstant(c) <= args.end * 86400000 + 86399000
ClaimedKept == SelectSeq(source.rows, LAMBDA r : InClaimedWindow(r.creation_time))

C7_WindowFilter ==
    /\ pc = "reconcile" => IdxSeq(df.rows) = IdxSeq(ClaimedKept)
    /\ (pc = "aborted" /\ err.stage = "filter") => FALSE

C7_Witness ==
    /\ pc = "reconcile"
    /\ Len(source.rows) = 2
    /\ ~Parses(SourceRow(0).creation_time)
    /\ UtcInstant(SourceRow(1).creation_time) = args.end * 86400000 + 86399000
    /\ IdxSeq(df.rows) = <<1>>

\* C8: the assignee derived for a row is the text of its
\* assigned_to_detail.email value when that column exists and the value is
\* non-null, else the text of its assigned_to value when that column exists and
\* the value is non-null, else the empty string; every emitted record carries
\* exactly that string as its assistant turn / assignee field.
Present(col, i) == col \in source.cols /\ SourceRow(i)[col].kind # "na"
ClaimedAssignee(i) ==
    IF Present("assigned_to_detail_email", i) THEN PyStr(SourceRow(i).assigned_to_detail_email)
    ELSE IF Present("assigned_to", i) THEN PyStr(SourceRow(i).assigned_to)
    ELSE <<>>
Derived == pc \in {"split", "emit_train", "emit_valid", "emit_test", "summary", "done"}

C8_Assignee ==
    /\ Derived => \A i \in 1..Len(df.rows) :
           df.rows[i].assignee = Str(ClaimedAssignee(df.rows[i].idx))
    /\ \A f \in {"train_all", "valid_all"} : \A i \in 1..Len(files[f].lines) :
           files[f].lines[i].rec.assistant = ClaimedAssignee(files[f].lines[i].idx)
    /\ \A i \in 1..Len(files.test_all.lines) :
           files.test_all.lines[i].rec.assignee = ClaimedAssignee(files.test_all.lines[i].idx)

C8_Witness ==
    /\ pc = "done"
    /\ Len(files.test_all.lines) = 1
    /\ {"assigned_to_detail_email", "assigned_to"} \subseteq source.cols
    /\ SourceRow(0).assigned_to_detail_email.kind = "na"
    /\ SourceRow(0).assigned_to.kind = "str"
    /\ files.test_all.lines[1].rec.assignee = <<"a", "@", "x">>

\* C10: the emitted title of a record is its summary_update value trimmed when
\* that is present, non-null and non-empty once trimmed, else its summary value
\* trimmed under the same condition, else the empty string; the body likewise
\* from description_update, then description.  A record whose candidates are
\* all missing or empty is still emitted: a finished run has written one
\* record per row of each subset.
IsTrimOf(t, s) ==
    \E i \in 1..(Len(s) + 1), j \in 0..Len(s) :
        /\ t = SubSeq(s, i, j)
        /\ \A k \in 1..(i - 1) : s[k] \in {" ", "\t", "\n"}
        /\ \A k \in (j + 1)..Len(s) : s[k] \in {" ", "\t", "\n"}
        /\ t # <<>> => (t[1] \notin {" ", "\t", "\n"} /\ t[Len(t)] \notin {" ", "\t", "\n"})
Usable(col, i) ==
    Present(col, i) /\ ~IsTrimOf(<<>>, PyStr(SourceRow(i)[col]))
IsClaimedText(t, upd, orig, i) ==
    IF Usable(upd, i) THEN IsTrimOf(t, PyStr(SourceRow(i)[upd]))
    ELSE IF Usable(orig, i) THEN IsTrimOf(t, PyStr(SourceRow(i)[orig]))
    ELSE t = <<>>
TitleBodyOk(idx, title, body) ==
    /\ IsClaimedText(title, "summary_update", "summary", idx)
    /\ IsClaimedText(body, "description_update", "description", idx)

C10_TitleBody ==
    /\ \A f \in {"train_all", "valid_all"} : \A i \in 1..Len(files[f].lines) :
           TitleBodyOk(files[f].lines[i].idx, files[f].lines[i].rec.user.title,
                       files[f].lines[i].rec.user.body)
    /\ \A i \in 1..Len(files.test_all.lines) :
           TitleBodyOk(files.test_all.lines[i].idx, files.test_all.lines[i].rec.title,
                       files.test_all.lines[i].rec.body)
    /\ pc = "done" =>
           /\ IdxSeq(files.train_all.lines) = IdxSeq(train)
           /\ IdxSeq(files.valid_all.lines) = IdxSeq(valid)
           /\ IdxSeq(files.test_all.lines) = IdxSeq(test)

C10_Witness ==
    /\ pc = "done"
    /\ Len(files.test_all.lines) = 1
    /\ "summary_update" \in source.cols /\ "summary" \in source.cols
    /\ SourceRow(0).summary_update = Str(<<" ", " ">>)
    /\ SourceRow(0).summary = Str(<<" ", "x">>)
    /\ files.test_all.lines[1].rec.title = <<"x">>

C10_WitnessEmpty ==
    /\ pc = "done"
    /\ Len(files.test_all.lines) = 1
    /\ files.test_all.lines[1].rec.title = <<>>
    /\ files.test_all.lines[1].rec.body = <<>>

====
